---- MODULE Spec2Model ----
(***************************************************************************)
(* Model of epcontrol's ESC/POS receipt printer (src/escpos_printer.py):   *)
(* the printer session (contents, commands, transport), the top-level      *)
(* compositor, the flex layout engine and the raster encoder.              *)
(*                                                                         *)
(* Images are kept as display lists: a canvas is its size plus the         *)
(* rectangles painted on it, in painting order; the intensity of a pixel   *)
(* is the shade of the last rectangle covering it, 255 (white) if none.    *)
(* Glyphs, QR symbols and decoded pictures come from external libraries    *)
(* (PIL, qrcode); a character is modelled by its advance width, and what   *)
(* those libraries paint is modelled as uniformly shaded rectangles.       *)
(***************************************************************************)
EXTENDS Integers, Sequences, FiniteSets, TLC

VARIABLES
    session,    \* "none" before the constructor returned, then "ready"
    paper_width,\* EscPosPrinter.paper_width (dots)
    padding_x,  \* EscPosPrinter.padding_x
    platform,   \* EscPosPrinter.platform
    contents,   \* EscPosPrinter.contents: the ordered content nodes
    commands,   \* EscPosPrinter.commands: the bytearray of ESC/POS bytes
    sent,       \* the buffers handed to the transport, oldest first
    op,         \* the last public call made
    result,     \* its outcome: "ok" or the exception it raised
    prev,       \* the public call made before the last one
    calls,      \* number of public calls made so far
    fx          \* a renderer or the encoder under test: its input and what it returned

vars == <<session, paper_width, padding_x, platform, contents, commands, sent,
          op, result, prev, calls, fx>>

-----------------------------------------------------------------------------
(* Bounds of the model *)

MaxCalls == 3
MaxItems == 3

-----------------------------------------------------------------------------
(* Python values *)

\* None, for the optional integers (max_width); the integers used are >= 0
None == -1

\* float("inf"): larger than every width the model measures
Infinity == 1000000000

Truthy(v) == v # None /\ v # 0

Max(a, b) == IF a >= b THEN a ELSE b

RECURSIVE SumSeq(_)
SumSeq(s) == IF s = <<>> THEN 0 ELSE Head(s) + SumSeq(Tail(s))

\* src/const.py
PAPER_WIDTH == ("58mm" :> 384) @@ ("80mm" :> 512)

FONT_SIZES == ("xxs" :> 16) @@ ("xs" :> 20) @@ ("sm" :> 24) @@ ("md" :> 28)
              @@ ("lg" :> 32) @@ ("xl" :> 36) @@ ("xxl" :> 40)

-----------------------------------------------------------------------------
(* Content nodes (the dataclasses) *)

Text(text, align, font_size, font, line_spacing) ==
    [type |-> "Text", text |-> text, align |-> align, font_size |-> font_size,
     font |-> font, line_spacing |-> line_spacing]

QrCode(data, box_size, border) ==
    [type |-> "QrCode", data |-> data, box_size |-> box_size, border |-> border]

NewLine(height, lines) ==
    [type |-> "NewLine", height |-> height, lines |-> lines]

ImageContent(image, max_width) ==
    [type |-> "ImageContent", image |-> image, max_width |-> max_width]

Flex(items, item_gap, row_gap, horizontal_align, vertical_align, max_width) ==
    [type |-> "Flex", items |-> items, item_gap |-> item_gap, row_gap |-> row_gap,
     horizontal_align |-> horizontal_align, vertical_align |-> vertical_align,
     max_width |-> max_width]

-----------------------------------------------------------------------------
(* Geometry primitives: PIL's Image.new, paste, and pixel access *)

Rect(x, y, w, h, shade) == [x |-> x, y |-> y, w |-> w, h |-> h, shade |-> shade]

\* Image.new("L", (w, h), color=255)
ImageNew(w, h) == [w |-> w, h |-> h, rects |-> <<>>]

\* the part of rectangle r inside a w x h canvas
Clip(r, w, h) ==
    LET x0 == Max(r.x, 0)
        y0 == Max(r.y, 0)
        x1 == IF r.x + r.w < w THEN r.x + r.w ELSE w
        y1 == IF r.y + r.h < h THEN r.y + r.h ELSE h
    IN  Rect(x0, y0, Max(x1 - x0, 0), Max(y1 - y0, 0), r.shade)

\* dst.paste(src, (x, y)): src's background and paint, clipped to src, moved by (x, y)
Paste(dst, src, x, y) ==
    [dst EXCEPT !.rects =
        @ \o <<Rect(x, y, src.w, src.h, 255)>>
          \o [i \in 1..Len(src.rects) |->
                LET c == Clip(src.rects[i], src.w, src.h)
                IN  Rect(c.x + x, c.y + y, c.w, c.h, c.shade)]]

\* the paint that crosses row y, in painting order: what the row looks like
RowPaint(image, y) ==
    LET crossing == SelectSeq(image.rects, LAMBDA r : r.y <= y /\ y < r.y + r.h)
    IN  [i \in 1..Len(crossing) |->
            [x |-> crossing[i].x, w |-> crossing[i].w, shade |-> crossing[i].shade]]

\* the shade at column x of a row: the last paint covering it, white if none
RECURSIVE ShadeAt(_, _, _)
ShadeAt(paint, k, x) ==
    IF k = 0 THEN 255
    ELSE IF paint[k].x <= x /\ x < paint[k].x + paint[k].w THEN paint[k].shade
    ELSE ShadeAt(paint, k - 1, x)

\* image.load()[x, y]
Pixel(image, x, y) ==
    LET paint == RowPaint(image, y) IN ShadeAt(paint, Len(paint), x)

\* a decoded picture [w, h, shade] as a canvas (Image.convert("L"))
ConvertL(image) ==
    [w |-> image.w, h |-> image.h,
     rects |-> <<Rect(0, 0, image.w, image.h, image.shade)>>]

\* Image.resize((w, h)) of the image codec: the paint scaled to the new size
Resize(img, w, h) ==
    [w |-> w, h |-> h,
     rects |-> [i \in 1..Len(img.rects) |->
                  LET r == img.rects[i]
                      x0 == IF img.w = 0 THEN 0 ELSE (r.x * w) \div img.w
                      y0 == IF img.h = 0 THEN 0 ELSE (r.y * h) \div img.h
                      x1 == IF img.w = 0 THEN 0 ELSE ((r.x + r.w) * w) \div img.w
                      y1 == IF img.h = 0 THEN 0 ELSE ((r.y + r.h) * h) \div img.h
                  IN  Rect(x0, y0, x1 - x0, y1 - y0, r.shade)]]

-----------------------------------------------------------------------------
(* Glyph metrics (ImageDraw.textbbox) and the QR encoder (qrcode.QRCode) *)

\* bbox[2] of a line: a string is the sequence of its characters' advance widths
TextWidth(line) == SumSeq(line)

\* bbox[3] - bbox[1] of a line: nothing for the empty string
LineHeight(line, font_size) == IF line = <<>> THEN 0 ELSE font_size

\* modules per side of the QR symbol the encoder returns (version=1)
QrModules == 21

\* qr.make_image(fill_color="black", back_color="white").convert("L")
QrMakeImage(qr_obj) ==
    LET side == (QrModules + 2 * qr_obj.border) * qr_obj.box_size
        quiet == qr_obj.border * qr_obj.box_size
    IN  [w |-> side, h |-> side,
         rects |-> <<Rect(quiet, quiet, side - 2 * quiet, side - 2 * quiet, 0)>>]

-----------------------------------------------------------------------------
(* FlexRenderer *)

\* ImageDraw.text((x, -bbox[1]), line, fill=0): the line's glyph box, black
DrawText(img, x, line, font_size) ==
    [img EXCEPT !.rects =
        Append(@, Rect(x, 0, TextWidth(line), LineHeight(line, font_size), 0))]

\* FlexRenderer._render_text, the wrap loop: one character at a time; lines
\* holds the tuples (current_line, available_width)
RECURSIVE FlexRenderer_wrap(_, _, _, _, _, _)
FlexRenderer_wrap(text, i, current_line, lines, available_width, max_width) ==
    IF i > Len(text)
    THEN IF current_line # <<>>
         THEN Append(lines, <<current_line, available_width>>) ELSE lines
    ELSE LET test_line == Append(current_line, text[i])
         IN  IF TextWidth(test_line) > available_width
             THEN FlexRenderer_wrap(text, i + 1, <<text[i]>>,
                                    Append(lines, <<current_line, available_width>>),
                                    max_width, max_width)
             ELSE FlexRenderer_wrap(text, i + 1, test_line, lines,
                                    available_width, max_width)

\* FlexRenderer._render_text, the loop over lines: one image per line, as wide
\* as the line
FlexLineImages(lines, font_size) ==
    [k \in 1..Len(lines) |->
        DrawText(ImageNew(TextWidth(lines[k][1]), LineHeight(lines[k][1], font_size)),
                 0, lines[k][1], font_size)]

\* FlexRenderer._render_text
FlexRenderer_render_text(text_obj, current_x, max_width) ==
    FlexLineImages(FlexRenderer_wrap(text_obj.text, 1, <<>>, <<>>,
                                     IF max_width = None THEN Infinity
                                     ELSE max_width - current_x,
                                     max_width),
                   text_obj.font_size)

\* FlexRenderer._render_qrcode
FlexRenderer_render_qrcode(qr_obj) == QrMakeImage(qr_obj)

\* FlexRenderer._render_image: shrink to max_width, the node is left alone;
\* int(img.height * ratio) is taken as the exact floor of h * max_width / w
FlexRenderer_render_image(img_obj) ==
    LET img == ConvertL(img_obj.image)
    IN  IF Truthy(img_obj.max_width) /\ img.w > img_obj.max_width
        THEN Resize(img, img_obj.max_width, (img.h * img_obj.max_width) \div img.w)
        ELSE img

\* the cursor of the placement pass before any item; brk and src record, for
\* every sub-canvas placed, whether a row break was taken before it and the
\* index k of the item it was rendered from
FlexStart ==
    [x |-> 0, y |-> 0, mh |-> 0, rw |-> 0, pos |-> <<>>, imgs |-> <<>>,
     brk |-> <<>>, src |-> <<>>, k |-> 0, err |-> ""]

\* a faulty variant of the placement step: the row break moves down but
\* leaves the cursor where it was
PlaceOne_no_x_reset(st, img, flex, max_width, wraps, widens) ==
    LET break == wraps /\ st.x + img.w > max_width
        x == st.x
        y == IF break THEN st.y + st.mh + flex.row_gap ELSE st.y
        mh == Max(IF break THEN 0 ELSE st.mh, img.h)
        nx == x + img.w + flex.item_gap
    IN  [st EXCEPT !.x = nx, !.y = y, !.mh = mh,
                   !.rw = IF widens THEN Max(@, nx) ELSE @,
                   !.pos = Append(@, <<x, y>>),
                   !.imgs = Append(@, img),
                   !.brk = Append(@, break),
                   !.src = Append(@, st.k)]

\* the body of the placement loop for one rendered sub-canvas; `wraps` is the
\* guard of the row break (`self.max_width and`, absent in the Flex branch) and
\* `widens` tells whether the branch updates rendered_width
PlaceOne(st, img, flex, max_width, wraps, widens) ==
    LET break == wraps /\ st.x + img.w > max_width
        x == IF break THEN 0 ELSE st.x
        y == IF break THEN st.y + st.mh + flex.row_gap ELSE st.y
        mh == Max(IF break THEN 0 ELSE st.mh, img.h)
        nx == x + img.w + flex.item_gap
    IN  [st EXCEPT !.x = nx, !.y = y, !.mh = mh,
                   !.rw = IF widens THEN Max(@, nx) ELSE @,
                   !.pos = Append(@, <<x, y>>),
                   !.imgs = Append(@, img),
                   !.brk = Append(@, break),
                   !.src = Append(@, st.k)]

RECURSIVE PlaceAll(_, _, _, _, _)
PlaceAll(st, imgs, k, flex, max_width) ==
    IF k > Len(imgs) THEN st
    ELSE PlaceAll(PlaceOne(st, imgs[k], flex, max_width, Truthy(max_width), TRUE),
                  imgs, k + 1, flex, max_width)

\* sum of (width + extra) of the entries whose row key is y
RECURSIVE RowSum(_, _, _)
RowSum(entries, y, extra) ==
    IF entries = <<>> THEN 0
    ELSE (IF Head(entries).y = y THEN Head(entries).w + extra ELSE 0)
         + RowSum(Tail(entries), y, extra)

\* max height of the entries whose row key is y
RECURSIVE RowMax(_, _)
RowMax(entries, y) ==
    IF entries = <<>> THEN 0
    ELSE Max(IF Head(entries).y = y THEN Head(entries).h ELSE 0,
             RowMax(Tail(entries), y))

\* the keys of a dict filled by setdefault, in insertion order
RECURSIVE RowKeys(_, _)
RowKeys(entries, seen) ==
    IF entries = <<>> THEN seen
    ELSE RowKeys(Tail(entries),
                 IF \E k \in 1..Len(seen) : seen[k] = Head(entries).y
                 THEN seen ELSE Append(seen, Head(entries).y))

\* item_positions zipped with the sizes of rendered_items
Entries(pos, imgs) ==
    [i \in 1..Len(pos) |->
        [x |-> pos[i][1], y |-> pos[i][2], w |-> imgs[i].w, h |-> imgs[i].h]]

\* horizontal_align == "right"
AlignRight(pos, imgs, flex, max_width) ==
    IF Len(pos) > 0 /\ max_width = None THEN [err |-> "TypeError", pos |-> pos]
    ELSE LET entries == Entries(pos, imgs)
         IN  [err |-> "",
              pos |-> [i \in 1..Len(pos) |->
                         LET row_width == RowSum(entries, pos[i][2], flex.item_gap)
                                          - flex.item_gap
                             offset == max_width - row_width
                         IN  <<pos[i][1] + offset, pos[i][2]>>]]

\* the inner search of "between": the first position equal to (x, y), 0 if none
FirstAt(pos, x, y) ==
    LET js == {j \in 1..Len(pos) : pos[j] = <<x, y>>}
    IN  IF js = {} THEN 0 ELSE CHOOSE j \in js : \A k \in js : j <= k

\* horizontal_align == "between", one row: items are found again by position
RECURSIVE BetweenRow(_, _, _, _, _, _)
BetweenRow(pos, items_in_row, i, current_x, y, extra_gap) ==
    IF i > Len(items_in_row) THEN pos
    ELSE LET j == FirstAt(pos, items_in_row[i].x, y)
         IN  BetweenRow(IF j = 0 THEN pos ELSE [pos EXCEPT ![j] = <<current_x, y>>],
                        items_in_row, i + 1,
                        current_x + items_in_row[i].w + extra_gap, y, extra_gap)

\* horizontal_align == "between", row after row
RECURSIVE AlignBetween(_, _, _, _, _)
AlignBetween(pos, keys, k, entries, max_width) ==
    IF k > Len(keys) THEN [err |-> "", pos |-> pos]
    ELSE LET y == keys[k]
             items_in_row == SelectSeq(entries, LAMBDA e : e.y = y)
             total_row_width == RowSum(items_in_row, y, 0)
             total_gaps == Len(items_in_row) - 1
         IN  IF total_gaps > 0 /\ max_width = None
             THEN [err |-> "TypeError", pos |-> pos]
             ELSE LET extra_gap == IF total_gaps > 0
                                   THEN (max_width - total_row_width) \div total_gaps
                                   ELSE 0
                  IN  AlignBetween(BetweenRow(pos, items_in_row, 1, 0, y, extra_gap),
                                   keys, k + 1, entries, max_width)

\* the horizontal post-pass
AlignHorizontal(pos, imgs, flex, max_width) ==
    IF flex.horizontal_align = "right" THEN AlignRight(pos, imgs, flex, max_width)
    ELSE IF flex.horizontal_align = "between"
    THEN AlignBetween(pos, RowKeys(Entries(pos, imgs), <<>>), 1,
                      Entries(pos, imgs), max_width)
    ELSE [err |-> "", pos |-> pos]

\* the vertical post-pass
AlignVertical(pos, imgs, flex) ==
    IF flex.vertical_align \in {"center", "bottom"}
    THEN LET entries == Entries(pos, imgs)
         IN  [i \in 1..Len(pos) |->
                LET row_height == RowMax(entries, pos[i][2])
                    offset == IF flex.vertical_align = "center"
                              THEN (row_height - imgs[i].h) \div 2
                              ELSE row_height - imgs[i].h
                IN  <<pos[i][1], pos[i][2] + offset>>]
    ELSE pos

RECURSIVE PasteAll(_, _, _, _)
PasteAll(canvas, pos, imgs, k) ==
    IF k > Len(pos) THEN canvas
    ELSE PasteAll(Paste(canvas, imgs[k], pos[k][1], pos[k][2]), pos, imgs, k + 1)

FlexFailed(e) == [err |-> e, img |-> ImageNew(0, 0), placed |-> <<>>, final |-> <<>>]

\* the Flex branch of the placement loop: the nested group is rendered with
\* its own max_width and placed as one sub-canvas
PlaceNested(at, nested, flex, max_width) ==
    IF nested.err # "" THEN [at EXCEPT !.err = nested.err]
    ELSE IF max_width = None THEN [at EXCEPT !.err = "TypeError"]
    ELSE PlaceOne(at, nested.img, flex, max_width, TRUE, FALSE)

\* FlexRenderer(flex, max_width).render(): the placement pass over the items
\* from index k on (FlexPlace, one item in FlexPlaceItem), then the post-passes
\* (FlexPlaced, FlexAligned) and the final image (FlexImage)
RECURSIVE FlexRenderer_render(_, _)
FlexPlaceItem(at, item, flex, max_width) ==
    IF item.type = "Text"
    THEN PlaceAll(at, FlexRenderer_render_text(item, at.x, max_width), 1, flex,
                  max_width)
    ELSE IF item.type = "QrCode"
    THEN PlaceOne(at, FlexRenderer_render_qrcode(item), flex, max_width,
                  Truthy(max_width), TRUE)
    ELSE IF item.type = "ImageContent"
    THEN PlaceOne(at, FlexRenderer_render_image(item), flex, max_width,
                  Truthy(max_width), TRUE)
    ELSE IF item.type = "Flex"
    THEN PlaceNested(at, FlexRenderer_render(item, item.max_width), flex, max_width)
    ELSE [at EXCEPT !.err = "ValueError"]

RECURSIVE FlexPlace(_, _, _, _)
FlexPlace(st, k, flex, max_width) ==
    IF st.err # "" \/ k > Len(flex.items) THEN st
    ELSE FlexPlace(FlexPlaceItem([st EXCEPT !.k = k], flex.items[k], flex, max_width),
                   k + 1, flex, max_width)

\* the final image, and the sub-canvases as placed and as aligned
FlexImage(st, pos, image_width) ==
    [err |-> "",
     img |-> PasteAll(ImageNew(image_width, st.y + st.mh), pos, st.imgs, 1),
     placed |-> [i \in 1..Len(st.pos) |->
                   [x |-> st.pos[i][1], y |-> st.pos[i][2],
                    w |-> st.imgs[i].w, h |-> st.imgs[i].h,
                    brk |-> st.brk[i], item |-> st.src[i]]],
     final |-> [i \in 1..Len(pos) |->
                  [x |-> pos[i][1], y |-> pos[i][2],
                   w |-> st.imgs[i].w, h |-> st.imgs[i].h,
                   item |-> st.src[i]]]]

FlexAligned(st, horizontal, flex, image_width) ==
    IF horizontal.err # "" THEN FlexFailed(horizontal.err)
    ELSE IF image_width < 0 THEN FlexFailed("ValueError")
    ELSE FlexImage(st, AlignVertical(horizontal.pos, st.imgs, flex), image_width)

FlexPlaced(st, flex, max_width) ==
    IF st.err # "" THEN FlexFailed(st.err)
    ELSE FlexAligned(st, AlignHorizontal(st.pos, st.imgs, flex, max_width), flex,
                     IF max_width = None THEN st.rw ELSE max_width)

FlexRenderer_render(flex, max_width) ==
    FlexPlaced(FlexPlace(FlexStart, 1, flex, max_width), flex, max_width)

-----------------------------------------------------------------------------
(* EscPosPrinter: rendering of the top-level content nodes *)

\* self.paper_width - 2 * self.padding_x
Available(pw, pad) == pw - 2 * pad

\* a faulty variant of the wrap loop: the text is never broken
EscPosPrinter_wrap_never_breaks(text, i, current_line, lines, available_width) ==
    IF text = <<>> THEN <<>> ELSE <<(<<text, available_width>>)>>

\* EscPosPrinter._render_text, the wrap loop; lines holds the tuples
\* (current_line, available width)
RECURSIVE EscPosPrinter_wrap(_, _, _, _, _)
EscPosPrinter_wrap(text, i, current_line, lines, available_width) ==
    IF i > Len(text)
    THEN IF current_line # <<>>
         THEN Append(lines, <<current_line, available_width>>) ELSE lines
    ELSE LET test_line == Append(current_line, text[i])
         IN  IF TextWidth(test_line) > available_width
             THEN EscPosPrinter_wrap(text, i + 1, <<text[i]>>,
                                     Append(lines, <<current_line, available_width>>),
                                     available_width)
             ELSE EscPosPrinter_wrap(text, i + 1, test_line, lines, available_width)

\* x_offset of a line, None for an alignment the renderer does not know
TextOffset(align, actual_line_width, pw, pad) ==
    IF align = "left" THEN pad
    ELSE IF align = "center" THEN (pw - actual_line_width) \div 2
    ELSE IF align = "right" THEN pw - actual_line_width - pad
    ELSE None

\* EscPosPrinter._render_text, the loop over lines: one paper-wide image per
\* line; the alignment is looked at when the first line is painted
LineImages(lines, text_obj, pw, pad) ==
    IF Len(lines) > 0 /\ text_obj.align \notin {"left", "center", "right"}
    THEN [err |-> "ValueError", imgs |-> <<>>]
    ELSE [err |-> "",
          imgs |-> [k \in 1..Len(lines) |->
                      DrawText(ImageNew(pw, LineHeight(lines[k][1], text_obj.font_size)),
                               TextOffset(text_obj.align, TextWidth(lines[k][1]), pw, pad),
                               lines[k][1], text_obj.font_size)]]

\* EscPosPrinter._render_text
EscPosPrinter_render_text(text_obj, pw, pad) ==
    LineImages(EscPosPrinter_wrap(text_obj.text, 1, <<>>, <<>>, Available(pw, pad)),
               text_obj, pw, pad)

\* EscPosPrinter._render_qrcode: shrunk to the available width, then centred
EscPosPrinter_render_qrcode(qr_obj, pw, pad) ==
    LET made == QrMakeImage(qr_obj)
        qr_img == IF made.w > Available(pw, pad)
                  THEN Resize(made, Available(pw, pad), Available(pw, pad))
                  ELSE made
    IN  Paste(ImageNew(pw, qr_img.h), qr_img, (pw - qr_img.w) \div 2, 0)

\* EscPosPrinter._render_newline
EscPosPrinter_render_newline(newline_obj, pw) ==
    ImageNew(pw, newline_obj.height * newline_obj.lines)

\* what EscPosPrinter._render_image leaves in img_obj.max_width
ClampedMaxWidth(img_obj, pw, pad) ==
    IF Truthy(img_obj.max_width) /\ img_obj.max_width > Available(pw, pad)
    THEN Available(pw, pad)
    ELSE img_obj.max_width

\* EscPosPrinter._render_image: the picture shrunk and centred on a paper-wide
\* canvas, and the node as the call leaves it
EscPosPrinter_render_image(img_obj, pw, pad) ==
    LET img == ConvertL(img_obj.image)
        max_width == ClampedMaxWidth(img_obj, pw, pad)
        limit == IF Truthy(img_obj.max_width) THEN max_width ELSE Available(pw, pad)
        shrunk == IF img.w > limit
                  THEN Resize(img, limit, (img.h * limit) \div img.w)
                  ELSE img
    IN  [img |-> Paste(ImageNew(pw, shrunk.h), shrunk, (pw - shrunk.w) \div 2, 0),
         node |-> [img_obj EXCEPT !.max_width = max_width]]

\* the blocks of a Text node: its lines, a line_spacing spacer between two lines
TextBlocks(imgs, line_spacing, pw) ==
    IF Len(imgs) > 1 /\ line_spacing > 0
    THEN [j \in 1..(2 * Len(imgs) - 1) |->
            IF j % 2 = 1
            THEN [image |-> imgs[(j + 1) \div 2], x |-> 0]
            ELSE [image |-> EscPosPrinter_render_newline(NewLine(line_spacing, 1), pw),
                  x |-> 0]]
    ELSE [j \in 1..Len(imgs) |-> [image |-> imgs[j], x |-> 0]]

\* the branches of the first loop of EscPosPrinter._convert_contents: what a
\* rendered node adds to the blocks
AddText(acc, r, line_spacing, pw) ==
    [acc EXCEPT !.err = r.err,
                !.blocks = @ \o TextBlocks(r.imgs, line_spacing, pw)]

AddBlock(acc, image) == [acc EXCEPT !.blocks = Append(@, [image |-> image, x |-> 0])]

AddImage(acc, k, r) ==
    [acc EXCEPT !.blocks = Append(@, [image |-> r.img, x |-> 0]),
                !.contents[k] = r.node]

AddFlex(acc, r, pad) ==
    [acc EXCEPT !.err = r.err,
                !.blocks = IF r.err = "" THEN Append(@, [image |-> r.img, x |-> pad])
                           ELSE @]

\* the isinstance chain of the first loop, for node k
ConvertOne(acc, k, content, pw, pad) ==
    IF content.type = "Text"
    THEN AddText(acc, EscPosPrinter_render_text(content, pw, pad),
                 content.line_spacing, pw)
    ELSE IF content.type = "QrCode"
    THEN AddBlock(acc, EscPosPrinter_render_qrcode(content, pw, pad))
    ELSE IF content.type = "NewLine"
    THEN AddBlock(acc, EscPosPrinter_render_newline(content, pw))
    ELSE IF content.type = "ImageContent"
    THEN AddImage(acc, k, EscPosPrinter_render_image(content, pw, pad))
    ELSE IF content.type = "Flex"
    THEN AddFlex(acc, FlexRenderer_render(content, Available(pw, pad)), pad)
    ELSE [acc EXCEPT !.err = "ValueError"]

\* EscPosPrinter._convert_contents, first loop, from node k on: the rendered
\* blocks, and the content list as the renderers leave it
RECURSIVE ConvertFrom(_, _, _, _)
ConvertFrom(acc, k, pw, pad) ==
    IF acc.err # "" \/ k > Len(acc.contents) THEN acc
    ELSE ConvertFrom(ConvertOne(acc, k, acc.contents[k], pw, pad), k + 1, pw, pad)

\* a faulty variant of the second loop: y_offset is never advanced
RECURSIVE StackBlocks_no_advance(_, _, _, _)
StackBlocks_no_advance(result_img, blocks, k, y_offset) ==
    IF k > Len(blocks) THEN result_img
    ELSE StackBlocks_no_advance(Paste(result_img, blocks[k].image, blocks[k].x, y_offset),
                                blocks, k + 1, y_offset)

\* the second loop: every block pasted below the one before
RECURSIVE StackBlocks(_, _, _, _)
StackBlocks(result_img, blocks, k, y_offset) ==
    IF k > Len(blocks) THEN result_img
    ELSE StackBlocks(Paste(result_img, blocks[k].image, blocks[k].x, y_offset),
                     blocks, k + 1, y_offset + blocks[k].image.h)

RECURSIVE BlocksHeight(_)
BlocksHeight(blocks) ==
    IF blocks = <<>> THEN 0 ELSE Head(blocks).image.h + BlocksHeight(Tail(blocks))

\* EscPosPrinter._convert_contents after the first loop: the blocks stacked on
\* a canvas of their total height
Converted(acc, pw) ==
    [err |-> acc.err,
     contents |-> acc.contents,
     blocks |-> acc.blocks,
     img |-> IF acc.err # "" THEN ImageNew(0, 0)
             ELSE StackBlocks(ImageNew(pw, BlocksHeight(acc.blocks)), acc.blocks, 1, 0)]

\* EscPosPrinter._convert_contents
EscPosPrinter_convert_contents(conts, pw, pad) ==
    Converted(ConvertFrom([err |-> "", blocks |-> <<>>, contents |-> conts], 1, pw, pad),
              pw)

-----------------------------------------------------------------------------
(* EscPosPrinter: ESC/POS commands *)

\* EscPosPrinter._escpos_init
EscPosPrinter_escpos_init(cmds) == cmds \o <<27, 64>>

\* a faulty variant of the feed: the default of one line, whatever is asked
escpos_feed_one_line(cmds, lines) == cmds \o <<27, 100, 1>>

\* EscPosPrinter._escpos_feed
EscPosPrinter_escpos_feed(cmds, lines) == cmds \o <<27, 100, lines>>

\* EscPosPrinter._escpos_cut
EscPosPrinter_escpos_cut(cmds) == cmds \o <<29, 86, 0>>

\* threshold of the binarisation
threshold == 200

\* int.to_bytes(2, "little")
ToBytesLE2(n) == <<n % 256, (n \div 256) % 256>>

\* a faulty variant of the padding: the width rounded down
PaddedWidth_rounded_down(width) == (width \div 8) * 8

\* (width + 7) & ~7
PaddedWidth(width) == ((width + 7) \div 8) * 8

\* image.point(lambda p: 0 if p < threshold else 255, mode="1")
Binarize(p) == IF p < threshold THEN 0 ELSE 255

\* the source column that image.resize((new_width, height)) reads for column x
\* of a mode "1" image (nearest neighbour)
SourceColumn(x, width, new_width) ==
    IF new_width = width THEN x ELSE ((2 * x + 1) * width) \div (2 * new_width)

\* a faulty variant of the inner loop: least significant bit first
PackByte_lsb_first(paint, width, new_width, x_byte) ==
    LET bit(b) ==
            IF Binarize(ShadeAt(paint, Len(paint),
                                SourceColumn(x_byte * 8 + b, width, new_width))) = 0
            THEN 2 ^ b ELSE 0
    IN  bit(0) + bit(1) + bit(2) + bit(3) + bit(4) + bit(5) + bit(6) + bit(7)

\* the inner loop over bit: 8 pixels of a row, most significant bit first;
\* the row is given by its paint
PackByte(paint, width, new_width, x_byte) ==
    LET bit(b) ==
            IF Binarize(ShadeAt(paint, Len(paint),
                                SourceColumn(x_byte * 8 + b, width, new_width))) = 0
            THEN 2 ^ (7 - b) ELSE 0
    IN  bit(0) + bit(1) + bit(2) + bit(3) + bit(4) + bit(5) + bit(6) + bit(7)

\* the loop over x_byte: the bytes of one row
PackRow(paint, width, new_width) ==
    <<>> \o [x_byte \in 1..(new_width \div 8) |->
                PackByte(paint, width, new_width, x_byte - 1)]

\* EscPosPrinter._image_to_escpos: the raster command appended to the commands.
\* Rows with the same paint pack to the same bytes and are packed once.
EscPosPrinter_image_to_escpos(cmds, image) ==
    LET width == IF image.w % 8 # 0 THEN PaddedWidth(image.w) ELSE image.w
        height == image.h
        row_bytes == width \div 8
        paints == <<>> \o [y \in 1..height |-> RowPaint(image, y - 1)]
        packed == [p \in {paints[y] : y \in 1..height} |->
                     PackRow(p, image.w, width)] @@ <<>>
        rows == <<>> \o [y \in 1..height |-> packed[paints[y]]]
    IN  IF row_bytes >= 65536 \/ height >= 65536
        THEN [err |-> "OverflowError", commands |-> cmds]
        ELSE [err |-> "",
              commands |-> cmds \o <<29, 118, 48, 0>>
                           \o ToBytesLE2(row_bytes) \o ToBytesLE2(height)
                           \o [k \in 1..(row_bytes * height) |->
                                 rows[((k - 1) \div row_bytes) + 1]
                                     [((k - 1) % row_bytes) + 1]]]

\* a faulty variant of the outcome of print: init and feed stay queued when
\* the layout failed
Printed_init_before_layout(cmds, conv, fed, raster) ==
    IF conv.err # "" \/ raster.err # ""
    THEN [err |-> IF conv.err # "" THEN conv.err ELSE raster.err,
          contents |-> conv.contents, commands |-> fed, send |-> FALSE]
    ELSE [err |-> "", contents |-> conv.contents,
          commands |-> EscPosPrinter_escpos_cut(
                           EscPosPrinter_escpos_feed(raster.commands, 4)),
          send |-> TRUE]

\* EscPosPrinter.print, the outcome: the content list and the commands it
\* leaves, and whether _escpos_send is reached. conv is what _convert_contents
\* returned or raised, fed the commands after init and feed, raster what
\* _image_to_escpos returned or raised
Printed(cmds, conv, fed, raster) ==
    IF conv.err # ""
    THEN [err |-> conv.err, contents |-> conv.contents, commands |-> cmds,
          send |-> FALSE]
    ELSE IF raster.err # ""
    THEN [err |-> raster.err, contents |-> conv.contents, commands |-> fed,
          send |-> FALSE]
    ELSE [err |-> "", contents |-> conv.contents,
          commands |-> EscPosPrinter_escpos_cut(
                           EscPosPrinter_escpos_feed(raster.commands, 4)),
          send |-> TRUE]

\* EscPosPrinter.print from the rendered page on
PrintConverted(cmds, conv, fed) ==
    Printed(cmds, conv, fed, EscPosPrinter_image_to_escpos(fed, conv.img))

\* EscPosPrinter.print up to the transport
EscPosPrinter_print(cmds, conts, pw, pad) ==
    PrintConverted(cmds, EscPosPrinter_convert_contents(conts, pw, pad),
                   EscPosPrinter_escpos_feed(EscPosPrinter_escpos_init(cmds), 4))

-----------------------------------------------------------------------------
(* EscPosPrinter: constructor and public methods *)

\* None where a string is expected (config.platform, font)
NoneStr == "<None>"

\* max_width="full"
Full == -2

\* image=None
NoImage == [kind |-> "None", w |-> 0, h |-> 0, shade |-> 255]

\* a PIL image of one shade
Picture(w, h, shade) == [kind |-> "Image", w |-> w, h |-> h, shade |-> shade]

\* EscPosPrinter._validate_config
EscPosPrinter_validate_config(config) ==
    IF config.paper_width \notin DOMAIN PAPER_WIDTH THEN "ValueError"
    ELSE IF config.platform # NoneStr
            /\ config.platform \notin {"windows", "linux", "macos"}
    THEN "ValueError"
    ELSE ""

\* the platform the constructor settles on, NoneStr on a host it does not know
DetectPlatform(config, sys_platform) ==
    IF config.platform # NoneStr THEN config.platform
    ELSE IF sys_platform = "win32" THEN "windows"
    ELSE IF sys_platform = "linux" THEN "linux"
    ELSE IF sys_platform = "darwin" THEN "macos"
    ELSE NoneStr

\* EscPosPrinter.__init__: the exception it raises, "" if none
EscPosPrinter_init(config, usb_info, sys_platform) ==
    IF EscPosPrinter_validate_config(config) # "" THEN "ValueError"
    ELSE IF DetectPlatform(config, sys_platform) = NoneStr THEN "ValueError"
    ELSE IF config.platform = "macos" /\ usb_info = NoneStr THEN "ValueError"
    ELSE ""

\* EscPosPrinter.text
EscPosPrinter_text(conts, text, align, font_size, font, line_spacing, default_font) ==
    [err |-> "",
     contents |-> Append(conts, Text(text, align, font_size,
                                     IF font = NoneStr THEN default_font ELSE font,
                                     line_spacing))]

\* EscPosPrinter.newline
EscPosPrinter_newline(conts, height, lines) ==
    [err |-> "", contents |-> Append(conts, NewLine(height, lines))]

\* box_size of a QR size name, None for a name that is none of sm, md, lg
BoxSize(size) ==
    IF size = "sm" THEN 8
    ELSE IF size = "md" THEN 10
    ELSE IF size = "lg" THEN 16
    ELSE None

\* EscPosPrinter.qrcode
EscPosPrinter_qrcode(conts, data, size) ==
    IF BoxSize(size) = None THEN [err |-> "ValueError", contents |-> conts]
    ELSE [err |-> "", contents |-> Append(conts, QrCode(data, BoxSize(size), 2))]

\* EscPosPrinter.image
EscPosPrinter_image(conts, image, max_width, pw) ==
    IF image.kind = "None" THEN [err |-> "ValueError", contents |-> conts]
    ELSE IF image.kind \notin {"Image", "str"}
    THEN [err |-> "ValueError", contents |-> conts]
    ELSE [err |-> "",
          contents |-> Append(conts,
                              ImageContent([image EXCEPT !.kind = "Image"],
                                           IF max_width = Full THEN pw ELSE max_width))]

\* EscPosPrinter.flex
EscPosPrinter_flex(conts, items, item_gap, row_gap, horizontal_align, vertical_align, pw) ==
    [err |-> "",
     contents |-> Append(conts, Flex(items, item_gap, row_gap, horizontal_align,
                                     vertical_align, pw))]

\* a faulty variant of clear: the queued commands survive
clear_keeps_commands(conts, cmds) == [contents |-> <<>>, commands |-> cmds]

\* EscPosPrinter.clear
EscPosPrinter_clear(conts, cmds) == [contents |-> <<>>, commands |-> <<>>]

\* EscPosPrinter._escpos_send: "" when the platform has a transport
EscPosPrinter_escpos_send(plat) ==
    IF plat \in {"windows", "linux", "macos"} THEN "" ELSE "ValueError"

\* FlexItemFactory.text (aligin and line_spacing play no part in a flex)
FlexItemFactory_text(text, font_size) == Text(text, "left", font_size, "font.ttf", 0)

\* FlexItemFactory.image
FlexItemFactory_image(image, max_width) == ImageContent(image, max_width)

\* FlexItemFactory.flex
FlexItemFactory_flex(items, item_gap, row_gap, horizontal_align, vertical_align, max_width) ==
    Flex(items, item_gap, row_gap, horizontal_align, vertical_align, max_width)

-----------------------------------------------------------------------------
(* Inputs of the printer session *)

Configs ==
    [printer_name : {"/dev/usb/lp0"}, paper_width : {"58mm", "80mm", "A4"},
     default_font : {"font.ttf"}, platform : {NoneStr, "linux", "macos", "amiga"},
     padding_x : {10}]

SysPlatforms == {"linux", "sunos5"}

\* (text, align) of the text() calls: a text of two wide characters, and ""
TextArgs ==
    {<<(<<200, 200>>), "center">>, <<(<<200, 200>>), "justify">>, <<(<<>>), "justify">>}

QrSizes == {"sm", "xl"}

\* (image, max_width) of the image() calls
ImageArgs == {<<Picture(400, 2, 0), Full>>, <<NoImage, None>>}

\* (items, horizontal_align, vertical_align) of the flex() calls
FlexArgs ==
    {<<(<<FlexItemFactory_image(Picture(5, 2, 0), None),
          FlexItemFactory_text(<<3, 3>>, 1)>>), "between", "center">>,
     <<(<<FlexItemFactory_image(Picture(5, 2, 0), None)>>), "middle", "upper">>,
     <<(<<NewLine(1, 1)>>), "left", "top">>}

NoFx == [stage |-> "none"]

-----------------------------------------------------------------------------
(* The printer session *)

Init ==
    /\ session = "none"
    /\ paper_width = 0
    /\ padding_x = 0
    /\ platform = NoneStr
    /\ contents = <<>>
    /\ commands = <<>>
    /\ sent = <<>>
    /\ op = "none"
    /\ result = "ok"
    /\ prev = "none"
    /\ calls = 0
    /\ fx = NoFx

\* a public call that can only change the content list
Appended(name, r) ==
    /\ contents' = r.contents
    /\ op' = name
    /\ result' = IF r.err = "" THEN "ok" ELSE r.err
    /\ prev' = op
    /\ calls' = calls + 1
    /\ UNCHANGED <<session, paper_width, padding_x, platform, commands, sent, fx>>

Ready == session = "ready" /\ calls < MaxCalls

\* printer = EscPosPrinter(config)
Construct ==
    /\ session = "none"
    /\ fx = NoFx
    /\ \E config \in Configs, sys_platform \in SysPlatforms :
         LET err == EscPosPrinter_init(config, NoneStr, sys_platform)
         IN  /\ op' = "EscPosPrinter"
             /\ result' = IF err = "" THEN "ok" ELSE err
             /\ IF err = ""
                THEN /\ session' = "ready"
                     /\ paper_width' = PAPER_WIDTH[config.paper_width]
                     /\ padding_x' = config.padding_x
                     /\ platform' = DetectPlatform(config, sys_platform)
                ELSE UNCHANGED <<session, paper_width, padding_x, platform>>
    /\ prev' = op
    /\ UNCHANGED <<contents, commands, sent, calls, fx>>

CallText ==
    /\ Ready
    /\ \E a \in TextArgs :
         Appended("text", EscPosPrinter_text(contents, a[1], a[2], FONT_SIZES["md"],
                                             NoneStr, 1, "font.ttf"))

CallNewline ==
    /\ Ready
    /\ Appended("newline", EscPosPrinter_newline(contents, 1, 2))

CallQrcode ==
    /\ Ready
    /\ \E size \in QrSizes :
         Appended("qrcode", EscPosPrinter_qrcode(contents, "data", size))

CallImage ==
    /\ Ready
    /\ \E a \in ImageArgs :
         Appended("image", EscPosPrinter_image(contents, a[1], a[2], paper_width))

CallFlex ==
    /\ Ready
    /\ \E a \in FlexArgs :
         Appended("flex", EscPosPrinter_flex(contents, a[1], 1, 0, a[2], a[3],
                                             paper_width))

\* printer.print(): the device takes the buffer or the transport raises
CallPrint ==
    /\ Ready
    /\ \E p \in {EscPosPrinter_print(commands, contents, paper_width, padding_x)},
          dispatch \in {EscPosPrinter_escpos_send(platform)} :
           /\ contents' = p.contents
           /\ commands' = p.commands
           /\ sent' = IF p.send /\ dispatch = "" THEN Append(sent, p.commands)
                      ELSE sent
           /\ \E device \in {"ok", "DeviceError"} :
                result' = IF p.err # "" THEN p.err
                          ELSE IF dispatch # "" THEN dispatch
                          ELSE device
    /\ op' = "print"
    /\ prev' = op
    /\ calls' = calls + 1
    /\ UNCHANGED <<session, paper_width, padding_x, platform, fx>>

\* printer.clear()
CallClear ==
    /\ Ready
    /\ contents' = EscPosPrinter_clear(contents, commands).contents
    /\ commands' = EscPosPrinter_clear(contents, commands).commands
    /\ op' = "clear"
    /\ result' = "ok"
    /\ prev' = op
    /\ calls' = calls + 1
    /\ UNCHANGED <<session, paper_width, padding_x, platform, sent, fx>>

Next ==
    \/ Construct
    \/ CallText
    \/ CallNewline
    \/ CallQrcode
    \/ CallImage
    \/ CallFlex
    \/ CallPrint
    \/ CallClear

Spec == Init /\ [][Next]_vars

-----------------------------------------------------------------------------
(* FlexRenderer on its own: a group is drawn, then rendered *)

\* the pictures, the text and the nested groups a group under test is made of
FlexCatalog ==
    {FlexItemFactory_image(Picture(5, 2, 0), None),
     FlexItemFactory_image(Picture(1, 1, 0), None),
     FlexItemFactory_image(Picture(3, 3, 0), None),
     FlexItemFactory_text(<<3, 3, 3>>, 2),
     FlexItemFactory_flex(<<>>, 0, 0, "left", "top", None),
     FlexItemFactory_flex(<<>>, 0, 0, "left", "top", 6),
     FlexItemFactory_flex(<<FlexItemFactory_text(<<3, 3, 3, 3, 3>>, 1)>>,
                          0, 0, "left", "top", None)}

FlexItemLists == UNION {[1..n -> FlexCatalog] : n \in 0..MaxItems}

FlexWidths == {12, 16}

FlexGaps == {0, 1}

FlexInputs ==
    {[stage |-> "input", max_width |-> w,
      flex |-> FlexItemFactory_flex(items, ig, rg, ha, va, None)] :
        items \in FlexItemLists, ig \in FlexGaps, rg \in FlexGaps,
        ha \in {"left", "right", "between"}, va \in {"top", "center", "bottom"},
        w \in FlexWidths}

InitFlex ==
    /\ session = "none"
    /\ paper_width = 0
    /\ padding_x = 0
    /\ platform = NoneStr
    /\ contents = <<>>
    /\ commands = <<>>
    /\ sent = <<>>
    /\ op = "none"
    /\ result = "ok"
    /\ prev = "none"
    /\ calls = 0
    /\ fx \in FlexInputs

\* FlexRenderer(flex, max_width).render()
FlexRender ==
    /\ fx.stage = "input"
    /\ fx' = [stage |-> "rendered", max_width |-> fx.max_width, flex |-> fx.flex,
              out |-> FlexRenderer_render(fx.flex, fx.max_width)]
    /\ UNCHANGED <<session, paper_width, padding_x, platform, contents, commands,
                   sent, op, result, prev, calls>>

NextFlex == FlexRender

SpecFlex == InitFlex /\ [][NextFlex]_vars

-----------------------------------------------------------------------------
(* Properties of the printer session *)

\* the last call was a print() that reached the transport
Handed == op = "print" /\ result \in {"ok", "DeviceError"}

\* C1: when print() is called twice in a row, with no append or clear between
\* the two calls, the buffer handed to the transport by the second call equals
\* the buffer handed by the first
C1_PrintTwiceSameBuffer ==
    (Handed /\ prev = "print" /\ Len(sent) >= 2)
        => sent[Len(sent)] = sent[Len(sent) - 1]

\* C2: print() leaves the content list as it was: same length, same order,
\* every node with the same field values
C2_RenderReadOnly == [][op' = "print" => contents' = contents]_vars

\* a node without the one field rendering writes to
Unclamped(node) ==
    IF node.type = "ImageContent" THEN [node EXCEPT !.max_width = None] ELSE node

\* every node of conts is still in place in after, in the same order
KeepsNodes(conts, after) ==
    /\ Len(after) >= Len(conts)
    /\ \A i \in 1..Len(conts) : Unclamped(after[i]) = Unclamped(conts[i])

\* C3: after clear() the content list and the command buffer are both empty;
\* a call other than clear() removes and reorders nothing: a successful
\* text/newline/qrcode/image/flex adds exactly one node at the end, and a
\* failed one, like print(), adds none
C3_ClearAndAppendOnly ==
    /\ [](op = "clear" => contents = <<>> /\ commands = <<>>)
    /\ [][op' # "clear" =>
            /\ KeepsNodes(contents, contents')
            /\ Len(contents') =
                 IF op' \in {"text", "newline", "qrcode", "image", "flex"}
                    /\ result' = "ok"
                 THEN Len(contents) + 1 ELSE Len(contents)]_vars

\* a clear() that followed a print() of a non-empty receipt
C3_Witness ==
    /\ op = "clear" /\ prev = "print"
    /\ \E i \in 1..Len(sent) : Len(sent[i]) > 19

\* the layout of the content list fails
LayoutFails ==
    EscPosPrinter_convert_contents(contents, paper_width, padding_x).err # ""

\* C4: when the layout fails during print(), nothing is handed to the
\* transport and the command buffer is left exactly as it was before the call
C4_LayoutFailureWritesNothing ==
    [][(op' = "print" /\ calls' = calls + 1 /\ LayoutFails) =>
            /\ commands' = commands
            /\ sent' = sent
            /\ result' \in {"ValueError", "TypeError"}]_vars

\* a print() whose layout failed, on a session whose command buffer still
\* holds the job of an earlier print()
C4_Witness ==
    /\ op = "print" /\ result = "ValueError"
    /\ LayoutFails
    /\ commands # <<>> /\ Len(sent) = 1

\* C5: a bad configuration value is reported by the call that brings it in: no
\* session is built on an invalid paper width or platform, and no node with an
\* invalid QR size, text alignment, horizontal_align or vertical_align is ever
\* appended to the content list
C5_ConfigErrorsReported ==
    /\ session = "ready" =>
            /\ paper_width \in {PAPER_WIDTH[k] : k \in DOMAIN PAPER_WIDTH}
            /\ platform \in {"windows", "linux", "macos"}
    /\ \A i \in 1..Len(contents) :
            /\ contents[i].type = "QrCode" => contents[i].box_size \in {8, 10, 16}
            /\ contents[i].type = "Text" =>
                    contents[i].align \in {"left", "center", "right"}
            /\ contents[i].type = "Flex" =>
                    /\ contents[i].horizontal_align \in {"left", "right", "between"}
                    /\ contents[i].vertical_align \in {"top", "center", "bottom"}

\* C6: a print() on a session with an empty command buffer hands the transport
\* exactly init (1B 40), feed 4 (1B 64 04), the raster command of the composed
\* canvas, feed 4 (1B 64 04), cut (1D 56 00), and hands it over complete: it is
\* the whole command buffer the call leaves
C6_JobFraming ==
    [][(op' = "print" /\ calls' = calls + 1 /\ commands = <<>>
        /\ Len(sent') = Len(sent) + 1) =>
            LET canvas == EscPosPrinter_convert_contents(contents, paper_width,
                                                         padding_x).img
                raster == EscPosPrinter_image_to_escpos(<<>>, canvas).commands
            IN  /\ sent'[Len(sent')] =
                     <<27, 64>> \o <<27, 100, 4>> \o raster \o <<27, 100, 4>>
                     \o <<29, 86, 0>>
                /\ commands' = sent'[Len(sent')]]_vars

\* the first print() of a session, with something on the receipt
C6_Witness ==
    /\ Handed /\ Len(sent) = 1
    /\ sent[1] = commands
    /\ Len(commands) > 19

-----------------------------------------------------------------------------
(* Properties of FlexRenderer.render *)

\* render() returned an image
FlexRendered == fx.stage = "rendered" /\ fx.out.err = ""

\* the row of the i-th sub-canvas: the number of row breaks taken up to it
RowOf(placed, i) == Cardinality({j \in 1..i : placed[j].brk})

\* C7: with a finite available width W, every placed sub-canvas ends up with
\* 0 <= x and x + w <= W, except a sub-canvas wider than W, which is alone on
\* its row
C7_WidthContainment ==
    FlexRendered =>
        \A i \in 1..Len(fx.out.final) :
            IF fx.out.final[i].w > fx.max_width
            THEN \A j \in 1..Len(fx.out.final) :
                    j # i => RowOf(fx.out.placed, j) # RowOf(fx.out.placed, i)
            ELSE /\ 0 <= fx.out.final[i].x
                 /\ fx.out.final[i].x + fx.out.final[i].w <= fx.max_width

\* C8: a nested group with no max_width is laid out against the width of the
\* group around it, and the canvas of any nested group is no wider than that
\* width
C8_NestedWidth ==
    FlexRendered =>
        \A i \in 1..Len(fx.out.final) :
            LET item == fx.flex.items[fx.out.final[i].item]
            IN  item.type = "Flex" =>
                    /\ fx.out.final[i].w <= fx.max_width
                    /\ item.max_width = None => fx.out.final[i].w = fx.max_width

\* two rectangles share a pixel
Intersect(a, b) ==
    /\ a.x < b.x + b.w /\ b.x < a.x + a.w
    /\ a.y < b.y + b.h /\ b.y < a.y + a.h

\* C9: the final rectangles of two placed sub-canvases of non-zero area never
\* intersect, and every rectangle lies within [0, total_height] vertically
C9_NoOverlap ==
    FlexRendered =>
        /\ \A i, j \in 1..Len(fx.out.final) :
              (i < j /\ fx.out.final[i].w * fx.out.final[i].h > 0
                     /\ fx.out.final[j].w * fx.out.final[j].h > 0)
                  => ~Intersect(fx.out.final[i], fx.out.final[j])
        /\ \A i \in 1..Len(fx.out.final) :
              /\ 0 <= fx.out.final[i].y
              /\ fx.out.final[i].y + fx.out.final[i].h <= fx.out.img.h

\* C10 as stated: in placement order y never decreases, and a sub-canvas other
\* than the first is recorded at x = 0 if and only if a row break was taken
\* just before it
C10_RowBreakIffXZero ==
    FlexRendered =>
        \A i \in 2..Len(fx.out.placed) :
            /\ fx.out.placed[i - 1].y <= fx.out.placed[i].y
            /\ fx.out.placed[i].x = 0 <=> fx.out.placed[i].brk

\* C10, amended: in placement order y never decreases; a sub-canvas recorded
\* after a row break is at x = 0; one recorded without a row break is at the
\* x of the sub-canvas before it plus that one's width plus item_gap, which is
\* 0 only if that sum is
C10_RowMonotonicity ==
    FlexRendered =>
        /\ \A i \in 1..Len(fx.out.placed) :
              fx.out.placed[i].brk => fx.out.placed[i].x = 0
        /\ \A i \in 2..Len(fx.out.placed) :
              /\ fx.out.placed[i - 1].y <= fx.out.placed[i].y
              /\ ~fx.out.placed[i].brk =>
                    fx.out.placed[i].x =
                        fx.out.placed[i - 1].x + fx.out.placed[i - 1].w
                        + fx.flex.item_gap

\* a layout with a row break, and with a sub-canvas at x = 0 that no row
\* break precedes
C10_Witness ==
    /\ FlexRendered
    /\ \E i \in 2..Len(fx.out.placed) :
          fx.out.placed[i].brk /\ fx.out.placed[i].y > fx.out.placed[i - 1].y
    /\ \E i \in 2..Len(fx.out.placed) :
          ~fx.out.placed[i].brk /\ fx.out.placed[i].x = 0

\* the sub-canvases on the row of the i-th one
RowMates(placed, i) == {j \in 1..Len(placed) : RowOf(placed, j) = RowOf(placed, i)}

\* total width of the sub-canvases 1..k that are on the row of the i-th one
RECURSIVE RowWidth(_, _, _)
RowWidth(placed, i, k) ==
    IF k = 0 THEN 0
    ELSE (IF k \in RowMates(placed, i) THEN placed[k].w ELSE 0)
         + RowWidth(placed, i, k - 1)

\* C11: with horizontal_align "between", on a row of n >= 2 sub-canvases of
\* total width S the sub-canvases keep their placement order, the first is at
\* x = 0 and every two neighbours are (W - S) / (n - 1) apart; a sub-canvas
\* alone on its row stays where it was placed
C11_BetweenEqualGaps ==
    (FlexRendered /\ fx.flex.horizontal_align = "between") =>
        \A i \in 1..Len(fx.out.final) :
            LET mates == RowMates(fx.out.placed, i)
                n == Cardinality(mates)
                S == RowWidth(fx.out.placed, i, Len(fx.out.placed))
            IN  IF n = 1 THEN fx.out.final[i].x = fx.out.placed[i].x
                ELSE /\ (i - 1) \notin mates => fx.out.final[i].x = 0
                     /\ (i + 1) \in mates =>
                            (fx.out.final[i + 1].x
                             - (fx.out.final[i].x + fx.out.final[i].w)) * (n - 1)
                                = fx.max_width - S

-----------------------------------------------------------------------------
(* Properties of the compositor *)

\* columns and rows where the look of an image can change: its origin and the
\* edges of what is painted on it
EdgesX(image) ==
    {0} \cup {image.rects[i].x : i \in 1..Len(image.rects)}
        \cup {image.rects[i].x + image.rects[i].w : i \in 1..Len(image.rects)}

EdgesY(image) ==
    {0} \cup {image.rects[i].y : i \in 1..Len(image.rects)}
        \cup {image.rects[i].y + image.rects[i].h : i \in 1..Len(image.rects)}

\* every pixel of `part` that falls on `canvas` when its corner is put at
\* (x, y) shows on the canvas. The look of an image is constant between two
\* edges, so it is compared at the edges of both images.
ShowsAt(canvas, part, x, y) ==
    \A cx \in EdgesX(canvas) \cup {x + e : e \in EdgesX(part)} :
        \A cy \in EdgesY(canvas) \cup {y + e : e \in EdgesY(part)} :
            (/\ x <= cx /\ cx < x + part.w /\ 0 <= cx /\ cx < canvas.w
             /\ y <= cy /\ cy < y + part.h /\ 0 <= cy /\ cy < canvas.h)
                => Pixel(canvas, cx, cy) = Pixel(part, cx - x, cy - y)

\* the heights of the blocks, in order
BlockHeights(blocks) == [k \in 1..Len(blocks) |-> blocks[k].image.h]

\* nothing is painted on the image
Blank(image) ==
    \A cx \in EdgesX(image), cy \in EdgesY(image) :
        (0 <= cx /\ cx < image.w /\ 0 <= cy /\ cy < image.h)
            => Pixel(image, cx, cy) = 255

\* the page composed from the content list of the session
Page == EscPosPrinter_convert_contents(contents, paper_width, padding_x)

\* C12: the composed canvas is as wide as the paper and as high as the sum of
\* the heights of the rendered blocks; block k shows at y = the sum of the
\* heights of the blocks before it, every block is as wide as the paper or
\* narrower; a top-level Flex is laid out in paper_width - 2 * padding_x and
\* shows at x = padding_x; a NewLine gives a blank block of height * lines
C12_CompositorStacking ==
    session = "ready" =>
        LET page == Page
            heights == BlockHeights(page.blocks)
        IN  page.err = "" =>
            /\ page.img.w = paper_width
            /\ page.img.h = SumSeq(heights)
            /\ \A k \in 1..Len(page.blocks) :
                  /\ ShowsAt(page.img, page.blocks[k].image, page.blocks[k].x,
                             SumSeq(SubSeq(heights, 1, k - 1)))
                  /\ 0 <= page.blocks[k].x
                  /\ page.blocks[k].x + page.blocks[k].image.w <= paper_width
            /\ \A i \in 1..Len(contents) :
                  /\ contents[i].type = "Flex" =>
                        \E k \in 1..Len(page.blocks) :
                            /\ page.blocks[k].x = padding_x
                            /\ page.blocks[k].image.w = paper_width - 2 * padding_x
                            /\ page.blocks[k].image =
                                 FlexRenderer_render(contents[i],
                                                     paper_width - 2 * padding_x).img
                  /\ contents[i].type = "NewLine" =>
                        \E k \in 1..Len(page.blocks) :
                            /\ page.blocks[k].x = 0
                            /\ page.blocks[k].image.w = paper_width
                            /\ page.blocks[k].image.h =
                                 contents[i].height * contents[i].lines
                            /\ Blank(page.blocks[k].image)

\* a print() of a receipt with a Flex block that is not the first block and
\* a NewLine block
C12_Witness ==
    /\ Handed /\ result = "ok" /\ Page.err = ""
    /\ \E i \in 2..Len(contents) : contents[i].type = "Flex"
    /\ \E i \in 1..Len(contents) : contents[i].type = "NewLine"
    /\ Page.img.h > 2

\* C13: every Text node of the content list is followed on the page by a
\* blank spacer block of height floor(font_size / 2), right after the blocks
\* of its lines (font size 28: a spacer of height 14)
C13_ImplicitSpacerAfterText ==
    (session = "ready" /\ Page.err = "") =>
        \A i \in 1..Len(contents) :
            contents[i].type = "Text" =>
                \E k \in 1..Len(Page.blocks) :
                    /\ Blank(Page.blocks[k].image)
                    /\ Page.blocks[k].image.w = paper_width
                    /\ Page.blocks[k].image.h = contents[i].font_size \div 2
                    /\ contents[i].text # <<>> =>
                          /\ k > 1
                          /\ ~Blank(Page.blocks[k - 1].image)
                          /\ Page.blocks[k - 1].image.h = contents[i].font_size

-----------------------------------------------------------------------------
(* EscPosPrinter._image_to_escpos on its own: a canvas is drawn, then encoded *)

MaxInk == 2

\* (width, height) of the canvases: widths on both sides of a multiple of 8,
\* sizes whose two-byte fields need the high byte, and a height that does not
\* fit two bytes. A canvas the encoder has to widen has at least one row.
RasterSizes ==
    {<<1, 1>>, <<7, 2>>, <<8, 0>>, <<8, 3>>, <<9, 1>>, <<16, 2>>, <<17, 3>>,
     <<385, 1>>, <<2041, 1>>, <<8, 257>>, <<8, 65536>>}

\* what is painted on a canvas: shades on both sides of the threshold, single
\* pixels, and runs that cross a byte boundary or the right edge
RasterInk ==
    {Rect(0, 0, 1, 1, 0), Rect(3, 0, 5, 2, 199), Rect(0, 1, 9, 1, 200),
     Rect(7, 0, 2, 3, 0), Rect(2, 0, 400, 1, 100), Rect(1, 0, 3, 3, 255),
     Rect(10, 1, 3, 1, 0)}

\* an 8x8 canvas with a checkerboard of black pixels, (0, 0) black
Checkerboard ==
    [w |-> 8, h |-> 8,
     rects |-> [k \in 1..32 |->
                  LET y == (k - 1) \div 4
                  IN  Rect(2 * ((k - 1) % 4) + (y % 2), y, 1, 1, 0)]]

RasterCanvases ==
    {[w |-> s[1], h |-> s[2], rects |-> ink] :
        s \in RasterSizes, ink \in UNION {[1..n -> RasterInk] : n \in 0..MaxInk}}
    \cup {Checkerboard}

\* the commands queued before the encoder runs: none, or ESC @
RasterQueued == {<<>>, EscPosPrinter_escpos_init(<<>>)}

InitRaster ==
    /\ session = "none"
    /\ paper_width = 0
    /\ padding_x = 0
    /\ platform = NoneStr
    /\ contents = <<>>
    /\ commands \in RasterQueued
    /\ sent = <<>>
    /\ op = "none"
    /\ result = "ok"
    /\ prev = "none"
    /\ calls = 0
    /\ fx \in {[stage |-> "canvas", image |-> c, queued |-> 0] : c \in RasterCanvases}

\* self._image_to_escpos(image)
RasterEncode ==
    /\ fx.stage = "canvas"
    /\ \E r \in {EscPosPrinter_image_to_escpos(commands, fx.image)} :
          /\ commands' = r.commands
          /\ result' = IF r.err = "" THEN "ok" ELSE r.err
    /\ fx' = [stage |-> "encoded", image |-> fx.image, queued |-> Len(commands)]
    /\ op' = "_image_to_escpos"
    /\ UNCHANGED <<session, paper_width, padding_x, platform, contents, sent,
                   prev, calls>>

NextRaster == RasterEncode

SpecRaster == InitRaster /\ [][NextRaster]_vars

-----------------------------------------------------------------------------
(* Properties of the raster encoder *)

\* the encoder has run on the canvas fx.image
Encoded == fx.stage = "encoded"

\* what the encoder appended to the commands
RasterData == SubSeq(commands, fx.queued + 1, Len(commands))

\* ceil(w / 8)
RowBytes(w) == (w + 7) \div 8

BitOf(byte, b) == (byte \div (2 ^ b)) % 2

\* C15: for a canvas whose width is a multiple of 8, bit (7 - x mod 8) of
\* payload byte y * rowBytes + floor(x / 8) is 1 if and only if the pixel
\* (x, y) of the canvas is darker than 200
C15_BitPackingRoundTrip ==
    (Encoded /\ result = "ok" /\ fx.image.w % 8 = 0)
    => LET data == RasterData
           rowBytes == fx.image.w \div 8
       IN  \A y \in 0..(fx.image.h - 1), x \in 0..(fx.image.w - 1) :
              (BitOf(data[8 + y * rowBytes + (x \div 8) + 1], 7 - (x % 8)) = 1)
              <=> (Pixel(fx.image, x, y) < 200)

\* the checkerboard was encoded: its rows alternate 10101010 and 01010101
C15_Witness ==
    /\ Encoded /\ result = "ok"
    /\ fx.image = Checkerboard
    /\ SubSeq(RasterData, 9, 16) = <<170, 85, 170, 85, 170, 85, 170, 85>>

-----------------------------------------------------------------------------
(* Properties of the right alignment *)

\* the width of the content of the row of the i-th sub-canvas: the widths of
\* its sub-canvases and item_gap between neighbours
RowContentWidth(placed, i, item_gap) ==
    RowWidth(placed, i, Len(placed))
    + item_gap * (Cardinality(RowMates(placed, i)) - 1)

\* C16: with horizontal_align "right" and the width W, every sub-canvas of a
\* row is moved by W minus the width of the row's content, so the last one of
\* the row ends at W and neighbours stay item_gap apart
C16_RightAlignment ==
    (FlexRendered /\ fx.flex.horizontal_align = "right") =>
        \A i \in 1..Len(fx.out.final) :
            LET mates == RowMates(fx.out.placed, i)
                offset == fx.max_width
                          - RowContentWidth(fx.out.placed, i, fx.flex.item_gap)
            IN  /\ fx.out.final[i].x = fx.out.placed[i].x + offset
                /\ (i + 1) \notin mates =>
                       fx.out.final[i].x + fx.out.final[i].w = fx.max_width
                /\ (i + 1) \in mates =>
                       fx.out.final[i + 1].x
                       - (fx.out.final[i].x + fx.out.final[i].w) = fx.flex.item_gap

-----------------------------------------------------------------------------
(* _render_text on its own: a text is drawn, then rendered by the printer or
   by a FlexRenderer *)

MaxLen == 4

\* the texts of at most MaxLen characters over the given advance widths
Texts(widths) == UNION {[1..n -> widths] : n \in 0..MaxLen}

\* a text node of the printer, and the printer's paper and padding: characters
\* narrower and wider than the paper, paddings that leave 384, 364, 84 and -16
WrapInputs ==
    {[stage |-> "text", renderer |-> "EscPosPrinter", pw |-> pw, pad |-> pad,
      text_obj |-> Text(t, "left", FONT_SIZES["md"], "font.ttf", 0)] :
        t \in Texts({100, 200, 400}), pw \in {PAPER_WIDTH["58mm"]},
        pad \in {0, 10, 150, 200}}

\* a text item of a group, the group's width and the x the item starts at
FlexWrapInputs ==
    {[stage |-> "text", renderer |-> "FlexRenderer", max_width |-> w,
      current_x |-> x, text_obj |-> FlexItemFactory_text(t, 2)] :
        t \in Texts({1, 2, 3, 7}), w \in {None, 6, 12}, x \in {0, 4, 12, 15}}

InitWrap ==
    /\ session = "none"
    /\ paper_width = 0
    /\ padding_x = 0
    /\ platform = NoneStr
    /\ contents = <<>>
    /\ commands = <<>>
    /\ sent = <<>>
    /\ op = "none"
    /\ result = "ok"
    /\ prev = "none"
    /\ calls = 0
    /\ fx \in WrapInputs \cup FlexWrapInputs

\* EscPosPrinter._render_text(text_obj): lines is what the wrap loop built
RenderText ==
    /\ fx.stage = "text" /\ fx.renderer = "EscPosPrinter"
    /\ fx' = [stage |-> "wrapped", renderer |-> fx.renderer, pw |-> fx.pw,
              pad |-> fx.pad, text_obj |-> fx.text_obj,
              lines |-> EscPosPrinter_wrap(fx.text_obj.text, 1, <<>>, <<>>,
                                           Available(fx.pw, fx.pad)),
              out |-> EscPosPrinter_render_text(fx.text_obj, fx.pw, fx.pad).imgs]
    /\ UNCHANGED <<session, paper_width, padding_x, platform, contents, commands,
                   sent, op, result, prev, calls>>

\* FlexRenderer._render_text(text_obj, current_x): lines is what the wrap loop
\* built
FlexRenderText ==
    /\ fx.stage = "text" /\ fx.renderer = "FlexRenderer"
    /\ fx' = [stage |-> "wrapped", renderer |-> fx.renderer,
              max_width |-> fx.max_width, current_x |-> fx.current_x,
              text_obj |-> fx.text_obj,
              lines |-> FlexRenderer_wrap(fx.text_obj.text, 1, <<>>, <<>>,
                                          IF fx.max_width = None THEN Infinity
                                          ELSE fx.max_width - fx.current_x,
                                          fx.max_width),
              out |-> FlexRenderer_render_text(fx.text_obj, fx.current_x,
                                               fx.max_width)]
    /\ UNCHANGED <<session, paper_width, padding_x, platform, contents, commands,
                   sent, op, result, prev, calls>>

NextWrap == RenderText \/ FlexRenderText

SpecWrap == InitWrap /\ [][NextWrap]_vars

-----------------------------------------------------------------------------
(* Properties of the character wrap *)

\* a text has been wrapped
Wrapped == fx.stage = "wrapped"

\* the lines, one after the other
RECURSIVE Concatenated(_, _)
Concatenated(lines, k) ==
    IF k = 0 THEN <<>> ELSE Concatenated(lines, k - 1) \o lines[k][1]

\* the width available to the k-th line: of the paper inside the padding; in a
\* group, what is left of the group's width after current_x for the first
\* line and the group's width for the others
AvailableFor(k) ==
    IF fx.renderer = "EscPosPrinter" THEN fx.pw - 2 * fx.pad
    ELSE IF fx.max_width = None THEN Infinity
    ELSE IF k = 1 THEN fx.max_width - fx.current_x
    ELSE fx.max_width

\* the lines put together are the text
WrapKeepsText == Concatenated(fx.lines, Len(fx.lines)) = fx.text_obj.text

\* a line ends before the end of the text only where one more character would
\* not fit
WrapIsGreedy ==
    \A k \in 1..(Len(fx.lines) - 1) :
        TextWidth(Append(fx.lines[k][1], fx.lines[k + 1][1][1])) > AvailableFor(k)

\* C17 as stated: the lines put together are the text, every line is within
\* the width available to it unless it is a single character wider than that
\* width, and a line is closed only when one more character would not fit
C17_GreedyWrap ==
    Wrapped =>
        /\ WrapKeepsText
        /\ \A k \in 1..Len(fx.lines) :
              \/ TextWidth(fx.lines[k][1]) <= AvailableFor(k)
              \/ Len(fx.lines[k][1]) = 1
        /\ WrapIsGreedy

\* C17, amended: the lines put together are the text, every line is empty or
\* within the width available to it or a single character wider than that
\* width, and a line is closed only when one more character would not fit
C17_GreedyWrapNonEmptyLines ==
    Wrapped =>
        /\ WrapKeepsText
        /\ \A k \in 1..Len(fx.lines) :
              \/ fx.lines[k][1] = <<>>
              \/ TextWidth(fx.lines[k][1]) <= AvailableFor(k)
              \/ Len(fx.lines[k][1]) = 1
        /\ \A k \in 1..Len(fx.lines) : fx.lines[k][2] = AvailableFor(k)
        /\ WrapIsGreedy

\* a text in a group was wrapped into three lines: an empty first line where
\* no width was left, a full line, and the rest
C17_Witness ==
    /\ Wrapped /\ fx.renderer = "FlexRenderer"
    /\ fx.max_width = 6 /\ fx.current_x = 15
    /\ Len(fx.lines) = 3
    /\ fx.lines[1][1] = <<>>
    /\ TextWidth(fx.lines[2][1]) = 6
    /\ Len(fx.out) = 3
====
